---- MODULE Spec2Model ----
(***************************************************************************)
(* Model of beacon_node/network/src/persisted_dht.rs: the persisted DHT    *)
(* (a list of ENRs kept as one RLP blob under DHT_DB_KEY in the DhtEnrs    *)
(* column of the hot database).                                            *)
(*                                                                         *)
(* Bytes are the integers 0..255, a byte string is a sequence of them.     *)
(* An ENR is modelled by its RLP list payload (a byte string); the ENR     *)
(* type itself is a collaborator of this file and is assumed to encode to  *)
(* one RLP list item and to decode exactly the item it encoded.            *)
(* Option<T> is a sequence of zero (None) or one (Some) elements.          *)
(***************************************************************************)
EXTENDS Integers, Sequences, FiniteSets, TLC

VARIABLES
    cPhase,   \* codec run: "input" | "encoded" | "truncated" | "extended" |
              \* "flipped" | "garbage" | "decoded"
    cEnrs,    \* codec run: the PersistedDht.enrs being encoded
    cBytes,   \* codec run: the byte buffer
    cFrom,    \* codec run: the phase the decoded buffer was in
    cOut,     \* codec run: Result of from_store_bytes
    db,       \* the hot database: column -> key -> Option<bytes>
    lastCall, \* sequential caller: the call that returned last
    prevCall, \* sequential caller: the call that returned before it
    pc,       \* concurrent callers: "idle" | "called" | "stepped" | "done"
    call,     \* concurrent callers: each caller's operation, argument and result
    persisted, \* concurrent callers: the lists given to persist_dht so far
    lastWrite \* concurrent callers: the entry left by the last put or delete applied

vars == <<cPhase, cEnrs, cBytes, cFrom, cOut, db, lastCall, prevCall,
          pc, call, persisted, lastWrite>>
codecVars == <<cPhase, cEnrs, cBytes, cFrom, cOut>>
seqVars == <<lastCall, prevCall>>
concVars == <<pc, call, persisted, lastWrite>>
storeVars == <<db, lastCall, prevCall, pc, call, persisted, lastWrite>>

-----------------------------------------------------------------------------
(* Bounds of the model *)

\* longest Vec<Enr> given to the codec
MaxEnrs == 2
\* longest arbitrary byte string given to the decoder
MaxBytes == 3
\* number of concurrent callers
NumCallers == 2
\* payload length of the modelled ENR that needs a one-byte long-form length
LongEnrLen == 56
\* payload length of the modelled ENR that pushes a list of two past 255 bytes
HugeEnrLen == 130

-----------------------------------------------------------------------------
(* RLP, as alloy_rlp implements it *)

EMPTY_STRING_CODE == 128
EMPTY_LIST_CODE == 192

\* Result<T, E>
Ok(v) == [ok |-> TRUE, val |-> v, err |-> <<>>]
Err(e) == [ok |-> FALSE, val |-> <<>>, err |-> e]

RECURSIVE FromBE(_)
\* u64::from_be_bytes over the length bytes of a long-form header
FromBE(bs) ==
    IF bs = <<>> THEN 0
    ELSE FromBE(SubSeq(bs, 1, Len(bs) - 1)) * 256 + bs[Len(bs)]

RECURSIVE ToBE(_)
\* to_be_bytes with the leading zero bytes trimmed
ToBE(n) == IF n = 0 THEN <<>> ELSE ToBE(n \div 256) \o <<n % 256>>

HeaderErr(e) == [ok |-> FALSE, list |-> FALSE, len |-> 0, off |-> 0, err |-> e]

\* the closing length check of Header::decode
HeaderCheck(buf, list, pl, off) ==
    IF Len(buf) - off < pl THEN HeaderErr("input too short")
    ELSE [ok |-> TRUE, list |-> list, len |-> pl, off |-> off, err |-> ""]

\* Header::decode: off is the number of header bytes consumed, len the payload length
HeaderDecode(buf) ==
    IF buf = <<>> THEN HeaderErr("input too short")
    ELSE LET b == buf[1] IN
      IF b < EMPTY_STRING_CODE THEN HeaderCheck(buf, FALSE, 1, 0)
      ELSE IF b <= EMPTY_STRING_CODE + 55 THEN
        LET pl == b - EMPTY_STRING_CODE IN
          IF pl = 1 /\ Len(buf) < 2 THEN HeaderErr("input too short")
          ELSE IF pl = 1 /\ buf[2] < EMPTY_STRING_CODE
            THEN HeaderErr("non-canonical single byte")
          ELSE HeaderCheck(buf, FALSE, pl, 1)
      ELSE IF b < EMPTY_LIST_CODE \/ b > EMPTY_LIST_CODE + 55 THEN
        LET list == b > EMPTY_LIST_CODE + 55
            lenOfLen == b - (IF list THEN EMPTY_LIST_CODE + 55
                                     ELSE EMPTY_STRING_CODE + 55)
        IN IF Len(buf) - 1 < lenOfLen THEN HeaderErr("input too short")
           ELSE IF buf[2] = 0 THEN HeaderErr("leading zero")
           ELSE LET pl == FromBE(SubSeq(buf, 2, 1 + lenOfLen)) IN
             IF pl < 56 THEN HeaderErr("non-canonical size information")
             ELSE HeaderCheck(buf, list, pl, 1 + lenOfLen)
      ELSE HeaderCheck(buf, TRUE, b - EMPTY_LIST_CODE, 1)

\* Header { list: true, payload_length }.encode
ListHeaderEncode(pl) ==
    IF pl < 56 THEN <<EMPTY_LIST_CODE + pl>>
    ELSE LET be == ToBE(pl) IN <<EMPTY_LIST_CODE + 55 + Len(be)>> \o be

-----------------------------------------------------------------------------
(* The ENR type: one RLP list item per record *)

\* the ENRs of the model, each given by its list payload
EnrPayloads ==
    { <<1>>, <<2, 3>>, [i \in 1..LongEnrLen |-> 5], [i \in 1..HugeEnrLen |-> 7] }

\* <Enr as Encodable>::encode
EnrEncode(enr) == ListHeaderEncode(Len(enr)) \o enr

\* <Enr as Decodable>::decode: used is the number of bytes of buf consumed
EnrDecode(buf) ==
    LET h == HeaderDecode(buf) IN
      IF ~h.ok THEN [ok |-> FALSE, enr |-> <<>>, used |-> 0, err |-> h.err]
      ELSE IF ~h.list
        THEN [ok |-> FALSE, enr |-> <<>>, used |-> 0, err |-> "unexpected string"]
      ELSE LET payload == SubSeq(buf, h.off + 1, h.off + h.len) IN
        IF payload \notin EnrPayloads
          THEN [ok |-> FALSE, enr |-> <<>>, used |-> 0, err |-> "invalid enr"]
        ELSE [ok |-> TRUE, enr |-> payload, used |-> h.off + h.len, err |-> ""]

-----------------------------------------------------------------------------
(* impl StoreItem for PersistedDht *)

RECURSIVE ConcatEnrs(_)
\* the loop of encode_list: every element's encoding, in order
ConcatEnrs(enrs) ==
    IF enrs = <<>> THEN <<>>
    ELSE EnrEncode(Head(enrs)) \o ConcatEnrs(Tail(enrs))

\* alloy_rlp::encode_list(&self.enrs, &mut buffer)
encode_list(enrs) ==
    LET payload == ConcatEnrs(enrs) IN ListHeaderEncode(Len(payload)) \o payload

\* as_store_bytes with the list header counting the records, not their bytes
as_store_bytes_counts_items(enrs) == ListHeaderEncode(Len(enrs)) \o ConcatEnrs(enrs)

as_store_bytes(enrs) == encode_list(enrs)

\* alloy_rlp::Rlp::new(bytes): the payload view of the outer list
RlpNew(bytes) ==
    LET h == HeaderDecode(bytes) IN
      IF ~h.ok THEN Err(h.err)
      ELSE IF ~h.list THEN Err("unexpected string")
      ELSE Ok(SubSeq(bytes, h.off + 1, h.off + h.len))

RECURSIVE DecodeLoop(_, _)
\* the loop over rlp.get_next(): Ok(Some) pushes, Ok(None) breaks, Err returns
DecodeLoop(view, enrs) ==
    IF view = <<>> THEN Ok(enrs)
    ELSE LET d == EnrDecode(view) IN
      IF ~d.ok THEN Err(<<"RlpError", d.err>>)
      ELSE DecodeLoop(SubSeq(view, d.used + 1, Len(view)), Append(enrs, d.enr))

\* from_store_bytes taking no bytes for no records
from_store_bytes_empty_ok(bytes) ==
    IF bytes = <<>> THEN Ok(<<>>)
    ELSE LET rlp == RlpNew(bytes) IN
      IF ~rlp.ok THEN Err(<<"RlpError", "Failed to decode RLP: ", rlp.err>>)
      ELSE DecodeLoop(rlp.val, <<>>)

from_store_bytes(bytes) ==
    LET rlp == RlpNew(bytes) IN
      IF ~rlp.ok THEN Err(<<"RlpError", "Failed to decode RLP: ", rlp.err>>)
      ELSE DecodeLoop(rlp.val, <<>>)

-----------------------------------------------------------------------------
(* Inputs *)

RECURSIVE SeqsUpTo(_, _)
SeqsUpTo(S, n) ==
    IF n = 0 THEN {<<>>}
    ELSE LET shorter == SeqsUpTo(S, n - 1) IN
      shorter \cup {Append(s, x) : s \in {t \in shorter : Len(t) = n - 1}, x \in S}

\* every Vec<Enr> of the model: empty, one, several, with repeats
EnrSeqs == SeqsUpTo(EnrPayloads, MaxEnrs)

\* bytes of every header class that keep lengths within three length bytes
ByteAlphabet == {0, 1, 127, 128, 129, 184, 192, 193, 194, 248, 249}

ArbitraryBytes == SeqsUpTo(ByteAlphabet, MaxBytes)

-----------------------------------------------------------------------------
(* The store: HotColdDB's hot database, get/put/delete by column and key *)

\* Hash256::ZERO
DHT_DB_KEY == [i \in 1..32 |-> 0]

OtherKey == [i \in 1..32 |-> IF i = 32 THEN 1 ELSE 0]

Keys == {DHT_DB_KEY, OtherKey}

\* db_column naming a column another item type uses
db_column_shared == "BeaconBlock"

\* PersistedDht::db_column()
db_column == "DhtEnrs"

Columns == {"DhtEnrs", "BeaconBlock"}

\* what the other column holds: entries of another item type, one under the zero key
OtherColumn == [k \in Keys |-> IF k = DHT_DB_KEY THEN << <<1>> >> ELSE << <<2, 2>> >>]

\* the error a failing store primitive returns
StoreError == <<"DBError", "store primitive failed">>

\* KeyValueStore::get_bytes
get_bytes(d, col, key, fail) ==
    IF fail THEN Err(StoreError) ELSE Ok(d[col][key])

\* KeyValueStore::put_bytes
put_bytes(d, col, key, bytes, fail) ==
    IF fail THEN [db |-> d, res |-> Err(StoreError)]
    ELSE [db |-> [d EXCEPT ![col][key] = <<bytes>>], res |-> Ok(<<>>)]

\* KeyValueStore::key_delete: deleting an absent key succeeds
key_delete(d, col, key, fail) ==
    IF fail THEN [db |-> d, res |-> Err(StoreError)]
    ELSE [db |-> [d EXCEPT ![col][key] = <<>>], res |-> Ok(<<>>)]

Interaction(op, col, key) == [op |-> op, col |-> col, key |-> key]

\* HotColdDB::get_item::<PersistedDht>: get_bytes, then from_store_bytes on Some
get_item(d, key, fail) ==
    LET got == get_bytes(d, db_column, key, fail)
        res == IF ~got.ok THEN got
               ELSE IF got.val = <<>> THEN Ok(<<>>)
               ELSE LET item == from_store_bytes(got.val[1]) IN
                    IF item.ok THEN Ok(<<item.val>>) ELSE item
    IN [db |-> d, res |-> res, io |-> <<Interaction("get", db_column, key)>>]

\* HotColdDB::put_item::<PersistedDht>: put_bytes of as_store_bytes
put_item(d, key, enrs, fail) ==
    LET put == put_bytes(d, db_column, key, as_store_bytes(enrs), fail) IN
      [db |-> put.db, res |-> put.res, io |-> <<Interaction("put", db_column, key)>>]

\* hot_db.delete::<PersistedDht>
delete(d, key, fail) ==
    LET del == key_delete(d, db_column, key, fail) IN
      [db |-> del.db, res |-> del.res, io |-> <<Interaction("delete", db_column, key)>>]

-----------------------------------------------------------------------------
(* The three operations. fails[i] says whether the i-th store interaction   *)
(* of the call fails. Each yields the store after the call, the value       *)
(* returned and the interactions made.                                      *)

\* load_dht handing the failure of get_item to its caller
load_dht_propagates(d, fails) ==
    LET got == get_item(d, DHT_DB_KEY, fails[1]) IN
      [db |-> got.db,
       res |-> IF ~got.res.ok THEN got.res
               ELSE IF got.res.val # <<>> THEN Ok(got.res.val[1])
               ELSE Ok(<<>>),
       io |-> got.io]

load_dht(d, fails) ==
    LET got == get_item(d, DHT_DB_KEY, fails[1]) IN
      [db |-> got.db,
       res |-> IF got.res.ok /\ got.res.val # <<>> THEN Ok(got.res.val[1])
               ELSE Ok(<<>>),
       io |-> got.io]

\* persist_dht writing under a key load_dht does not read
persist_dht_other_key(d, enrs, fails) == put_item(d, OtherKey, enrs, fails[1])

\* persist_dht trying the put a second time when the first fails
persist_dht_retries(d, enrs, fails) ==
    LET first == put_item(d, DHT_DB_KEY, enrs, fails[1]) IN
      IF first.res.ok THEN first
      ELSE LET second == put_item(d, DHT_DB_KEY, enrs, fails[2]) IN
        [db |-> second.db, res |-> second.res, io |-> first.io \o second.io]

\* persist_dht adding the new records to the ones already stored
persist_dht_merges(d, enrs, fails) ==
    LET got == get_item(d, DHT_DB_KEY, FALSE)
        old == IF got.res.ok /\ got.res.val # <<>> THEN got.res.val[1] ELSE <<>>
    IN put_item(d, DHT_DB_KEY, old \o enrs, fails[1])

persist_dht(d, enrs, fails) == put_item(d, DHT_DB_KEY, enrs, fails[1])

\* clear_dht treating a missing entry as an error
clear_dht_needs_entry(d, fails) ==
    IF d[db_column][DHT_DB_KEY] = <<>>
      THEN [db |-> d, res |-> Err(<<"DBError", "no such key">>),
            io |-> <<Interaction("get", db_column, DHT_DB_KEY)>>]
    ELSE delete(d, DHT_DB_KEY, fails[1])

\* clear_dht deleting under a key persist_dht does not write
clear_dht_other_key(d, fails) == delete(d, OtherKey, fails[1])

clear_dht(d, fails) == delete(d, DHT_DB_KEY, fails[1])

-----------------------------------------------------------------------------
(* One caller after another *)

\* the ENR lists the sequential caller persists
StoreEnrSeqs == SeqsUpTo({<<1>>, [i \in 1..HugeEnrLen |-> 7]}, MaxEnrs)

\* what the DhtEnrs entry may hold when the node starts: nothing, the blob of
\* an earlier run, or bytes that do not decode
InitialDhtEntries ==
    {<<>>, <<as_store_bytes(<< <<2, 3>> >>)>>, << <<>> >>, << <<193>> >>,
     << <<194, 193, 1>> >>}

StoreWith(entry) ==
    [c \in Columns |->
       IF c = "DhtEnrs"
         THEN [k \in Keys |-> IF k = [i \in 1..32 |-> 0] THEN entry ELSE <<>>]
       ELSE OtherColumn]

FailureSchedules == [1..2 -> BOOLEAN]

NoCall == [op |-> "none", arg |-> <<>>, res |-> Ok(<<>>)]

Summary(c) == [op |-> c.op, arg |-> c.arg, res |-> c.res]

Callers == 1..NumCallers

NoConcCall == [op |-> "none", arg |-> <<>>, fails |-> [i \in 1..2 |-> FALSE],
               res |-> Ok(<<>>)]

\* no concurrent caller has started
ConcIdle ==
    /\ pc = [p \in Callers |-> "idle"]
    /\ call = [p \in Callers |-> NoConcCall]
    /\ persisted = {}
    /\ lastWrite = <<>>

\* no codec run in progress
CodecIdle ==
    /\ cPhase = "input"
    /\ cEnrs = <<>>
    /\ cBytes = <<>>
    /\ cFrom = "none"
    /\ cOut = Ok(<<>>)

\* no call made, fresh store
StoreIdle ==
    /\ db = StoreWith(<<>>)
    /\ lastCall = [op |-> "none", arg |-> <<>>, fails |-> [i \in 1..2 |-> FALSE],
                   res |-> Ok(<<>>), io |-> <<>>, before |-> StoreWith(<<>>)]
    /\ prevCall = NoCall
    /\ ConcIdle

Init ==
    /\ \E entry \in InitialDhtEntries :
         /\ db = StoreWith(entry)
         /\ lastCall = [op |-> "none", arg |-> <<>>, fails |-> [i \in 1..2 |-> FALSE],
                        res |-> Ok(<<>>), io |-> <<>>, before |-> StoreWith(entry)]
    /\ prevCall = NoCall
    /\ CodecIdle
    /\ ConcIdle

Returned(op, arg, fails, r) ==
    /\ db' = r.db
    /\ lastCall' = [op |-> op, arg |-> arg, fails |-> fails, res |-> r.res,
                    io |-> r.io, before |-> db]
    /\ prevCall' = Summary(lastCall)
    /\ UNCHANGED <<codecVars, concVars>>

Load ==
    \E fails \in FailureSchedules :
      Returned("load", <<>>, fails, load_dht(db, fails))

Persist ==
    \E enrs \in StoreEnrSeqs, fails \in FailureSchedules :
      Returned("persist", enrs, fails, persist_dht(db, enrs, fails))

Clear ==
    \E fails \in FailureSchedules :
      Returned("clear", <<>>, fails, clear_dht(db, fails))

Next == Load \/ Persist \/ Clear

Spec == Init /\ [][Next]_vars

-----------------------------------------------------------------------------
(* Concurrent callers over a store with atomic get/put/delete. A call is    *)
(* entered, makes its store interaction in one atomic step, and returns.    *)

\* the ENR lists the concurrent callers persist: one is a prefix of another,
\* two hold the same records in different order
ConcEnrSeqs == { << <<1>> >>, << <<1>>, <<2, 3>> >>, << <<2, 3>>, <<1>> >> }

ConcFailures == {[i \in 1..2 |-> f] : f \in BOOLEAN}

InitConc ==
    /\ db = StoreWith(<<>>)
    /\ lastCall = [op |-> "none", arg |-> <<>>, fails |-> [i \in 1..2 |-> FALSE],
                   res |-> Ok(<<>>), io |-> <<>>, before |-> StoreWith(<<>>)]
    /\ prevCall = NoCall
    /\ ConcIdle
    /\ CodecIdle

Enter(p, op, arg, fails) ==
    /\ pc[p] = "idle"
    /\ pc' = [pc EXCEPT ![p] = "called"]
    /\ call' = [call EXCEPT ![p] = [op |-> op, arg |-> arg, fails |-> fails,
                                    res |-> Ok(<<>>)]]
    /\ persisted' = IF op = "persist" THEN persisted \cup {arg} ELSE persisted
    /\ UNCHANGED <<db, lastWrite, seqVars, codecVars>>

CallLoad == \E p \in Callers, fails \in ConcFailures : Enter(p, "load", <<>>, fails)

CallPersist ==
    \E p \in Callers, enrs \in ConcEnrSeqs, fails \in ConcFailures :
      Enter(p, "persist", enrs, fails)

CallClear == \E p \in Callers, fails \in ConcFailures : Enter(p, "clear", <<>>, fails)

\* the operation's body, run against the store as it is now
Body(p) ==
    IF call[p].op = "load" THEN load_dht(db, call[p].fails)
    ELSE IF call[p].op = "persist" THEN persist_dht(db, call[p].arg, call[p].fails)
    ELSE clear_dht(db, call[p].fails)

\* the entry a put or delete that the store applied leaves behind
Applied(p, r) ==
    IF call[p].op = "persist" /\ r.res.ok THEN <<as_store_bytes(call[p].arg)>>
    ELSE IF call[p].op = "clear" /\ r.res.ok THEN <<>>
    ELSE lastWrite

\* the store interaction of caller p took effect with outcome r
Stepped(p, r) ==
    /\ db' = r.db
    /\ call' = [call EXCEPT ![p].res = r.res]
    /\ lastWrite' = Applied(p, r)
    /\ pc' = [pc EXCEPT ![p] = "stepped"]
    /\ UNCHANGED <<persisted, seqVars, codecVars>>

Interact == \E p \in Callers : pc[p] = "called" /\ Stepped(p, Body(p))

Return ==
    \E p \in Callers :
      /\ pc[p] = "stepped"
      /\ pc' = [pc EXCEPT ![p] = "done"]
      /\ UNCHANGED <<db, call, persisted, lastWrite, seqVars, codecVars>>

NextConc == CallLoad \/ CallPersist \/ CallClear \/ Interact \/ Return

SpecConc == InitConc /\ [][NextConc]_vars

-----------------------------------------------------------------------------
(* The codec run: encode a Vec<Enr>, possibly damage the bytes, decode *)

InitCodec ==
    /\ cPhase = "input"
    /\ cEnrs \in EnrSeqs
    /\ cBytes = <<>>
    /\ cFrom = "none"
    /\ cOut = Ok(<<>>)
    /\ StoreIdle

Encode ==
    /\ cPhase = "input"
    /\ cBytes' = as_store_bytes(cEnrs)
    /\ cPhase' = "encoded"
    /\ UNCHANGED <<cEnrs, cFrom, cOut, storeVars>>

\* bytes cut off the end of a valid encoding
Truncate ==
    /\ cPhase = "encoded"
    /\ \E n \in 0..(Len(cBytes) - 1) : cBytes' = SubSeq(cBytes, 1, n)
    /\ cPhase' = "truncated"
    /\ UNCHANGED <<cEnrs, cFrom, cOut, storeVars>>

\* extra bytes after the outer list of a valid encoding
AppendByte ==
    /\ cPhase = "encoded"
    /\ \E b \in ByteAlphabet : cBytes' = Append(cBytes, b)
    /\ cPhase' = "extended"
    /\ UNCHANGED <<cEnrs, cFrom, cOut, storeVars>>

\* one byte of a valid encoding overwritten
FlipByte ==
    /\ cPhase = "encoded"
    /\ \E i \in 1..Len(cBytes), b \in ByteAlphabet :
         /\ b # cBytes[i]
         /\ cBytes' = [cBytes EXCEPT ![i] = b]
    /\ cPhase' = "flipped"
    /\ UNCHANGED <<cEnrs, cFrom, cOut, storeVars>>

\* bytes that never were an encoding
Garbage ==
    /\ cPhase = "input"
    /\ cEnrs = <<>>
    /\ \E bs \in ArbitraryBytes : cBytes' = bs
    /\ cPhase' = "garbage"
    /\ UNCHANGED <<cEnrs, cFrom, cOut, storeVars>>

Decode ==
    /\ cPhase # "decoded"
    /\ cOut' = from_store_bytes(cBytes)
    /\ cFrom' = cPhase
    /\ cPhase' = "decoded"
    /\ UNCHANGED <<cEnrs, cBytes, storeVars>>

NextCodec == Encode \/ Truncate \/ AppendByte \/ FlipByte \/ Garbage \/ Decode

SpecCodec == InitCodec /\ [][NextCodec]_vars

-----------------------------------------------------------------------------
(* Properties *)

\* the DhtEnrs entry under the all-zero key in store d
DhtEntry(d) == d["DhtEnrs"][[i \in 1..32 |-> 0]]

\* every byte string that is the encoding of some Vec<Enr>
AllEncodings == {encode_list(enrs) : enrs \in SeqsUpTo(EnrPayloads, MaxEnrs + 1)}

\* C1 as stated: after persist_dht(store, S) returned Ok, the load_dht that
\* follows immediately returns S, element by element and in order.
C1_LoadAfterPersist ==
    (lastCall.op = "load" /\ prevCall.op = "persist" /\ prevCall.res.ok)
      => lastCall.res = Ok(prevCall.arg)

\* C1 amended: after persist_dht(store, S) returned Ok, the load_dht that
\* follows immediately and whose store get does not fail returns S, element by
\* element and in order; when that get fails it returns the empty list.
C1_LoadAfterPersistGetOk ==
    (lastCall.op = "load" /\ prevCall.op = "persist" /\ prevCall.res.ok)
      => IF lastCall.fails[1] THEN lastCall.res = Ok(<<>>)
         ELSE /\ lastCall.res.ok
              /\ Len(lastCall.res.val) = Len(prevCall.arg)
              /\ \A i \in 1..Len(prevCall.arg) : lastCall.res.val[i] = prevCall.arg[i]

C1_Witness ==
    /\ lastCall.op = "load" /\ ~lastCall.fails[1]
    /\ prevCall.op = "persist" /\ prevCall.res.ok
    /\ Len(prevCall.arg) >= 2 /\ prevCall.arg[1] = prevCall.arg[2]
    /\ lastCall.res.val = prevCall.arg

\* C2: from_store_bytes(as_store_bytes(S)) is Ok with a list as long as S whose
\* i-th record is the i-th record of S, for every S (empty, repeats included).
C2_RoundTrip ==
    (cPhase = "decoded" /\ cFrom = "encoded")
      => /\ cOut.ok
         /\ Len(cOut.val) = Len(cEnrs)
         /\ \A i \in 1..Len(cEnrs) : cOut.val[i] = cEnrs[i]

C2_Witness ==
    /\ cPhase = "decoded" /\ cFrom = "encoded"
    /\ Len(cEnrs) >= 2 /\ cEnrs[1] = cEnrs[2]
    /\ Len(cBytes) > 255
    /\ cOut.val = cEnrs

\* C3: load_dht always returns a list, and the empty list whenever the key has
\* no entry, the store's get fails, or the stored bytes do not decode.
C3_LoadNeverFails ==
    lastCall.op = "load"
      => /\ lastCall.res.ok
         /\ ( \/ lastCall.fails[1]
              \/ DhtEntry(lastCall.before) = <<>>
              \/ ~from_store_bytes(DhtEntry(lastCall.before)[1]).ok )
              => lastCall.res.val = <<>>

C3_Witness ==
    /\ lastCall.op = "load" /\ ~lastCall.fails[1]
    /\ DhtEntry(lastCall.before) # <<>>
    /\ ~from_store_bytes(DhtEntry(lastCall.before)[1]).ok
    /\ lastCall.res = Ok(<<>>)

\* C4 as stated: from_store_bytes of any byte string that is not exactly the
\* encoding of some Vec<Enr> (truncated, corrupted, or a valid encoding with
\* extra bytes after the outer list) returns the RlpError and no list.
C4_MalformedIsError ==
    (cPhase = "decoded" /\ cBytes \notin AllEncodings)
      => ~cOut.ok /\ cOut.err[1] = "RlpError"

\* C5 as stated: from_store_bytes of zero bytes is Ok with the empty list.
C5_EmptyBytesDecodeToEmpty ==
    (cPhase = "decoded" /\ cBytes = <<>>) => cOut = Ok(<<>>)

\* C5 amended: from_store_bytes of zero bytes returns the RlpError (the outer
\* list header cannot be read); the bytes that decode to the empty list are
\* the one-byte encoding of the empty list.
C5_EmptyBytesAreAnError ==
    cPhase = "decoded"
      => /\ cBytes = <<>> => (~cOut.ok /\ cOut.err[1] = "RlpError")
         /\ cBytes = <<EMPTY_LIST_CODE>> => cOut = Ok(<<>>)

C5_Witness ==
    /\ cPhase = "decoded" /\ cFrom = "input"
    /\ cBytes = <<>>
    /\ ~cOut.ok

\* C6: when the store's delete does not fail, clear_dht on a key that holds no
\* entry returns Ok, and a clear_dht right after a successful clear_dht returns
\* Ok and leaves the store as the first one left it.
C6_ClearIdempotent ==
    (lastCall.op = "clear" /\ ~lastCall.fails[1])
      => /\ DhtEntry(lastCall.before) = <<>>
              => (lastCall.res = Ok(<<>>) /\ db = lastCall.before)
         /\ (prevCall.op = "clear" /\ prevCall.res.ok)
              => (lastCall.res = Ok(<<>>) /\ db = lastCall.before)

C6_Witness ==
    /\ lastCall.op = "clear" /\ lastCall.res.ok
    /\ prevCall.op = "clear" /\ prevCall.res.ok
    /\ DhtEntry(db) = <<>>

\* C7: whatever calls were made, every column other than DhtEnrs holds what it
\* held at the start, and DhtEnrs holds no entry under any key but DHT_DB_KEY.
C7_ColumnIsolation ==
    /\ \A c \in Columns \ {"DhtEnrs"} : db[c] = OtherColumn
    /\ \A k \in Keys \ {[i \in 1..32 |-> 0]} : db["DhtEnrs"][k] = <<>>

C7_Witness ==
    /\ lastCall.op = "persist" /\ lastCall.res.ok
    /\ prevCall.op = "clear" /\ prevCall.res.ok
    /\ DhtEntry(db) = <<encode_list(lastCall.arg)>>

\* C8: persist_dht makes exactly one put, clear_dht exactly one delete, both
\* against DHT_DB_KEY in DhtEnrs; each returns the store's error as it is when
\* that interaction fails, and Ok when it succeeds.
C8_OneInteraction ==
    /\ lastCall.op = "persist"
         => /\ lastCall.io = <<Interaction("put", "DhtEnrs", [i \in 1..32 |-> 0])>>
            /\ lastCall.res = IF lastCall.fails[1] THEN Err(StoreError) ELSE Ok(<<>>)
    /\ lastCall.op = "clear"
         => /\ lastCall.io = <<Interaction("delete", "DhtEnrs", [i \in 1..32 |-> 0])>>
            /\ lastCall.res = IF lastCall.fails[1] THEN Err(StoreError) ELSE Ok(<<>>)

C8_Witness ==
    /\ lastCall.op = "persist" /\ lastCall.fails[1] /\ ~lastCall.fails[2]
    /\ lastCall.res = Err(StoreError)
    /\ Len(lastCall.io) = 1

\* C9: a load_dht that follows a successful clear_dht returns the empty list,
\* whatever was stored before the clear.
C9_LoadAfterClear ==
    (lastCall.op = "load" /\ prevCall.op = "clear" /\ prevCall.res.ok)
      => lastCall.res = Ok(<<>>)

C9_Witness ==
    /\ lastCall.op = "load" /\ ~lastCall.fails[1]
    /\ prevCall.op = "clear" /\ prevCall.res.ok
    /\ lastCall.res = Ok(<<>>)

====
